---- MODULE Spec2Model ----
(***************************************************************************)
(* Model of toip's call orchestration: the `run` command                   *)
(* (src/command/run.rs), the call listener (src/server.rs) and the call    *)
(* client (src/command/call.rs).                                           *)
(*                                                                         *)
(* Concurrent tasks of one `run` invocation:                               *)
(*   - run itself (setup, dispatch loop, drain),                           *)
(*   - call_handle: the bootstrap call for the initiating container,       *)
(*   - server_handle: Server::listen, the accept loop,                     *)
(*   - one container task per dispatched instruction,                      *)
(*   - the wrapper task that awaits the origin container task and then     *)
(*     cancels the CancellationToken.                                      *)
(***************************************************************************)
EXTENDS Integers, Sequences, FiniteSets, TLC

\* ---------------------------------------------------------------- bounds
\* Number of connections made to the call socket in one run (the bootstrap
\* call included).
MaxCalls == 3

\* Worker threads of the tokio runtime that polls the spawned tasks (the
\* default of #[tokio::main] is one per core of the machine).
WorkerThreads == 2

\* Connections made in a burst of calls, and how many of them may wait
\* unaccepted on the socket at a time.
MaxBurst == 103
MaxPending == 1

\* Longest input given to the `argument` parser, and the largest number of
\* `&&` / `||` operators in an input given to the `shell` parser.
MaxInputLen == 3
MaxOps == 4

\* Largest number of entries in the Env list of an image's configuration.
MaxImageEnv == 1

\* Longest name or argument of a CallInfo (the arguments that fill the
\* receive buffer apart), and the largest number of arguments.
MaxStrLen == 1
MaxArgs == 2

\* Longest payload of a stdio frame, and the largest number of frames in a
\* stream.
MaxPayload == 1
MaxFrames == 2

\* Largest number of ports of a container configuration, and the number of
\* host ports the random generator draws from.
MaxPortCount == 2
PortChoices == 3

\* Largest number of further child processes of the container's init (the
\* descendants of the spawned child that were left to it), and the number of
\* signals sent to the init from outside.
MaxOthers == 2
MaxSignals == 1

\* Deepest starting directory given to find_config_file.
MaxDepth == 3

\* Longest container name a script is created for.
MaxNameLen == 2

\* ------------------------------------------------------ program constants
\* mpsc::channel(100)
ChannelCapacity == 100

\* `let mut buf2 = [0; 1024];`
BufferSize == 1024

\* `let fds = [0, 1, 2];` and file_descriptors[0..2]: stdin, stdout, stderr
StdioCount == 3

\* Declared payload lengths around the receive buffer's size.
Sizes == {BufferSize - 1, BufferSize, BufferSize + 1}

\* Numbers of descriptors a connection's ancillary data carries: the three of
\* `call`, or one too few.
FdCounts == {StdioCount - 1, StdioCount}

\* Names a call can carry, and the container table of the configuration.
\* "missing" is a name without a container.
Names == {"shell", "helper", "missing"}
Containers == {"shell", "helper"}

\* What Inner::handle makes of the bytes of one connection:
\*   "ok"       a frame with message_size < 1024 and valid JSON
\*   "badjson"  recv or serde_json::from_slice fails          (returns Err)
\*   "toolarge" message_size >= 1024                           (panic!)
FrameKinds == {"ok", "badjson", "toolarge"}

VARIABLES
    alias,              \* container_name / origin_container_name
    socketFile,         \* the socket path exists on disk
    bound,              \* server::create bound the listener in this run
    runPc,              \* position of run()
    runResult,          \* what run() returned
    callHandle,         \* call_handle: the bootstrap call task
    serverState,        \* server_handle: Server::listen
    current,            \* the connection Inner::handle is working on
    backlog,            \* connections made and not yet accepted
    queue,              \* the mpsc channel tx -> rx
    tasks,              \* container tasks in dispatch order
    cancellationHandle, \* index of the origin task, 0 is None
    wrapper,            \* the task stored in cancellation_handle
    cancelled,          \* cancellation_token.is_cancelled()
    cancelCount,        \* number of cancellation_token.cancel() calls
    containerHandles,   \* container_handles, by task index
    awaited,            \* container handles the drain loop has joined
    removeAttempted,    \* fs::remove_file(&socket) was called
    calls,              \* connections made so far
    published,          \* ids of the Calls sent on the channel, in order
    input,              \* argument of the function under examination
    output              \* its results so far, in the order computed

\* The state of one `run` invocation.
runVars == << alias, socketFile, bound, runPc, runResult, callHandle,
              serverState, current, backlog, queue, tasks, cancellationHandle,
              wrapper, cancelled, cancelCount, containerHandles, awaited,
              removeAttempted, calls, published >>

vars == << runVars, input, output >>

\* What one connection carries: the declared length of the payload, whether
\* the payload read is valid JSON of a CallInfo, and the number of
\* descriptors in its SCM_RIGHTS data.
Frames == [size : Sizes, valid : BOOLEAN, nfds : FdCounts]

NoConn == [id |-> 0, name |-> "", size |-> 0, valid |-> FALSE, nfds |-> 0]

Conns == [id : 1..MaxCalls, name : Names, size : Sizes, valid : BOOLEAN,
          nfds : FdCounts]

\* Server::listen has returned or panicked: the Server, its Arc<Inner> and
\* with it the only Sender are dropped.
ServerFinished == {"stopped", "accept_err", "decode_err", "size_panic"}

ServerFailed == ServerFinished \ {"stopped"}

\* A container task that has finished, and how.
TaskOutcomes == {"ok", "build_err", "run_err", "rm_err", "panic"}

TaskDone(t) == t.state \in TaskOutcomes

Running == runPc # "returned"

\* Variant of StreamEnded that ends the stream whenever the channel is
\* empty, also while the Sender is alive.
StreamEnded_OnEmpty == queue = << >>

\* Variant of StreamEnded that ends the stream as soon as the Sender is
\* dropped, whatever is still on the channel.
StreamEnded_OnSenderDrop == serverState \in ServerFinished

\* ReceiverStream::next() yields None: every Sender dropped, channel empty.
StreamEnded == serverState \in ServerFinished /\ queue = << >>

Init ==
    /\ alias \in Names
    /\ socketFile \in BOOLEAN
    /\ bound = FALSE
    /\ runPc = "setup"
    /\ runResult = "none"
    /\ callHandle = "none"
    /\ serverState = "none"
    /\ current = NoConn
    /\ backlog = << >>
    /\ queue = << >>
    /\ tasks = << >>
    /\ cancellationHandle = 0
    /\ wrapper = "none"
    /\ cancelled = FALSE
    /\ cancelCount = 0
    /\ containerHandles = {}
    /\ awaited = {}
    /\ removeAttempted = FALSE
    /\ calls = 0
    /\ published = << >>
    /\ input = << >>
    /\ output = << >>

\* run() returns `result`; the process ends with it.
Return(result) ==
    /\ runPc' = "returned"
    /\ runResult' = result

\* ------------------------------------------------------------ run: setup
\* server::create binds the socket path (UnixListener::bind fails when the
\* path exists), then call_handle and server_handle are spawned.
RunSetup ==
    /\ runPc = "setup"
    /\ IF socketFile
         THEN /\ Return("bind_err")
              /\ UNCHANGED << socketFile, bound, callHandle, serverState >>
         ELSE /\ socketFile' = TRUE
              /\ bound' = TRUE
              /\ callHandle' = "running"
              /\ serverState' = "listening"
              /\ runPc' = "await_call"
              /\ UNCHANGED runResult
    /\ UNCHANGED << input, output, alias, current, backlog, queue, tasks, cancellationHandle,
                    wrapper, cancelled, cancelCount, containerHandles,
                    awaited, removeAttempted, calls, published >>

\* ---------------------------------------------------------- call client
\* Frames the client `call` can produce: its JSON is always well formed and
\* it passes descriptors 0, 1, 2, but long arguments give a payload of 1024
\* bytes or more.
ClientFrames == [size : Sizes, valid : {TRUE}, nfds : {StdioCount}]

\* Frames a workload can put on the socket: those of `call`, and short
\* frames that are malformed in one respect (invalid JSON, or a number of
\* descriptors other than three).
WorkloadFrames ==
    ClientFrames
    \cup { f \in Frames : f.size = BufferSize - 1 /\ ~f.valid
                            /\ f.nfds = StdioCount }
    \cup { f \in Frames : f.size = BufferSize - 1 /\ f.valid
                            /\ f.nfds # StdioCount }

\* UnixStream::connect succeeds while the path exists and the listening
\* socket is open (the UnixListener lives in the Server).
CanConnect == socketFile /\ serverState \in {"listening", "handling"}

\* call(): connect, then one send of the frame; no response is read.
CallSend(name, frame) ==
    /\ CanConnect
    /\ backlog' = Append(backlog, [id |-> calls + 1, name |-> name,
                                   size |-> frame.size, valid |-> frame.valid,
                                   nfds |-> frame.nfds])
    /\ calls' = calls + 1

\* Variant of BootstrapCall in which a call that ends with an error has put
\* its frame on the socket before.
BootstrapCall_SendsOnError ==
    /\ Running
    /\ callHandle = "running"
    /\ \E frame \in ClientFrames : CallSend(alias, frame)
    /\ callHandle' \in {"ok", "err"}
    /\ UNCHANGED << input, output, alias, socketFile, bound, runPc, runResult,
                    serverState, current, queue, tasks, cancellationHandle,
                    wrapper, cancelled, cancelCount, containerHandles, awaited,
                    removeAttempted, published >>

\* call_handle: the bootstrap call for the initiating container.  call()
\* returns Ok(()) right after send_vectored_with_ancillary; a failed connect
\* returns the error before anything is sent.
BootstrapCall ==
    /\ Running
    /\ callHandle = "running"
    /\ \/ /\ \E frame \in ClientFrames : CallSend(alias, frame)
          /\ callHandle' = "ok"
       \/ /\ callHandle' = "err"
          /\ UNCHANGED << backlog, calls >>
    /\ UNCHANGED << input, output, alias, socketFile, bound, runPc, runResult, serverState,
                    current, queue, tasks, cancellationHandle, wrapper,
                    cancelled, cancelCount, containerHandles, awaited,
                    removeAttempted, published >>

\* Variant of RunAwaitCall that awaits the bootstrap call and drops its
\* result.
RunAwaitCall_IgnoresFailure ==
    /\ runPc = "await_call"
    /\ callHandle \in {"ok", "err"}
    /\ runPc' = "dispatch"
    /\ UNCHANGED << input, output, alias, socketFile, bound, runResult, callHandle,
                    serverState, current, backlog, queue, tasks,
                    cancellationHandle, wrapper, cancelled, cancelCount,
                    containerHandles, awaited, removeAttempted, calls,
                    published >>

\* call_handle.await ?? : a failed bootstrap call ends run() at once.
RunAwaitCall ==
    /\ runPc = "await_call"
    /\ callHandle \in {"ok", "err"}
    /\ IF callHandle = "ok"
         THEN runPc' = "dispatch" /\ UNCHANGED runResult
         ELSE Return("call_err")
    /\ UNCHANGED << input, output, alias, socketFile, bound, callHandle, serverState,
                    current, backlog, queue, tasks, cancellationHandle,
                    wrapper, cancelled, cancelCount, containerHandles,
                    awaited, removeAttempted, calls, published >>

\* ------------------------------------------------------------- listener
\* select! branch `Some(incoming) = listener_stream.next()`; `incoming?`
\* ends listen() with the accept error.
ListenAccept ==
    /\ Running
    /\ serverState = "listening"
    /\ backlog # << >>
    /\ \/ /\ serverState' = "handling"
          /\ current' = Head(backlog)
       \/ /\ serverState' = "accept_err"
          /\ UNCHANGED current
    /\ backlog' = Tail(backlog)
    /\ UNCHANGED << input, output, alias, socketFile, bound, runPc, runResult, callHandle,
                    queue, tasks, cancellationHandle, wrapper, cancelled,
                    cancelCount, containerHandles, awaited, removeAttempted,
                    calls, published >>

\* Inner::handle up to the decoded CallInfo: `if message_size >= 1024
\* { panic!(..) }`, then `serde_json::from_slice(&buf2[0..message_size])?`.
FrameKind(size, valid) ==
    IF size >= BufferSize THEN "toolarge"
    ELSE IF valid THEN "ok" ELSE "badjson"

\* What listen() does with the result of inner.handle(std_stream).await? :
\* an Err or a panic of handle ends listen().
HandleOutcome(kind) ==
    CASE kind = "toolarge" -> "size_panic"
      [] kind = "badjson"  -> "decode_err"
      [] OTHER             -> "listening"

\* Variant of HasRoom for an unbounded channel: send() never waits.
HasRoom_Unbounded(q) == TRUE

\* `mpsc::channel(100)`: send().await completes only while fewer than 100
\* Calls are on the channel.
HasRoom(q) == Len(q) < ChannelCapacity

\* Variant of Enqueue that puts the Call in front of those waiting.
Enqueue_Front(q, c) == << c >> \o q

\* The channel after `self.sender.send(Call { .. })`.
Enqueue(q, c) == Append(q, c)

\* Inner::handle: read the frame, decode it, send the Call on the channel
\* (send().await waits while the channel is full).
Handle ==
    /\ Running
    /\ serverState = "handling"
    /\ LET next == HandleOutcome(FrameKind(current.size, current.valid)) IN
         /\ next = "listening" => HasRoom(queue)
         /\ serverState' = next
         /\ queue' = IF next = "listening"
                       THEN Enqueue(queue, [id |-> current.id,
                                            name |-> current.name,
                                            nfds |-> current.nfds])
                       ELSE queue
         /\ published' = IF next = "listening"
                           THEN Append(published, current.id)
                           ELSE published
    /\ current' = NoConn
    /\ UNCHANGED << input, output, alias, socketFile, bound, runPc, runResult, callHandle,
                    backlog, tasks, cancellationHandle, wrapper, cancelled,
                    cancelCount, containerHandles, awaited, removeAttempted,
                    calls >>

\* select! branch `_ = cancellation_token.cancelled() => break`.
ListenCancel ==
    /\ Running
    /\ serverState = "listening"
    /\ cancelled
    /\ serverState' = "stopped"
    /\ UNCHANGED << input, output, alias, socketFile, bound, runPc, runResult, callHandle,
                    current, backlog, queue, tasks, cancellationHandle,
                    wrapper, cancelled, cancelCount, containerHandles,
                    awaited, removeAttempted, calls, published >>

\* --------------------------------------------------------- run: dispatch
\* Variant of IsOrigin without the `cancellation_handle.is_none()` test.
IsOrigin_IgnoresRecorded(name, handle) == name = alias

\* `&call_container_name == origin_container_name &&
\*  cancellation_handle.is_none()`
IsOrigin(name, handle) == name = alias /\ handle = 0

\* Variant of Rest in which taking an instruction leaves it on the channel.
Rest_Keeps(q) == q

\* The channel after `call_instruction_stream.next()` yielded its head: the
\* Call is moved out to the receiver.
Rest(q) == Tail(q)

\* One iteration of `while let Some(instruction) = ...next().await`:
\* spawn the container task, then store its handle.
RunDispatch ==
    /\ runPc = "dispatch"
    /\ queue # << >>
    /\ LET instruction == Head(queue)
           i == Len(tasks) + 1
       IN /\ tasks' = Append(tasks, [id |-> instruction.id,
                                     name |-> instruction.name,
                                     nfds |-> instruction.nfds,
                                     state |-> "spawned",
                                     fds |-> "raw",
                                     bundle |-> "none"])
          /\ IF IsOrigin(instruction.name, cancellationHandle)
               THEN /\ cancellationHandle' = i
                    /\ wrapper' = "waiting"
                    /\ UNCHANGED containerHandles
               ELSE /\ containerHandles' = containerHandles \cup {i}
                    /\ UNCHANGED << cancellationHandle, wrapper >>
    /\ queue' = Rest(queue)
    /\ UNCHANGED << input, output, alias, socketFile, bound, runPc, runResult, callHandle,
                    serverState, current, backlog, cancelled, cancelCount,
                    awaited, removeAttempted, calls, published >>

\* The instruction stream ended: the while loop is left.
RunStreamEnd ==
    /\ runPc = "dispatch"
    /\ StreamEnded
    /\ runPc' = "await_origin"
    /\ UNCHANGED << input, output, alias, socketFile, bound, runResult, callHandle,
                    serverState, current, backlog, queue, tasks,
                    cancellationHandle, wrapper, cancelled, cancelCount,
                    containerHandles, awaited, removeAttempted, calls, published >>

\* ------------------------------------------------------- container task
\* A task record after `outcome` of its first part.  The descriptors are
\* raw integers in instruction.file_descriptors ("raw") until
\* Stdio::from_raw_fd wraps them ("stdio"); a Stdio that is dropped closes its
\* descriptor ("closed").  With fewer than three descriptors the wrapping
\* panics on file_descriptors[2] after the bundle was built, and the unwinding
\* drops the Stdio values made so far.
Prepared(t, outcome) ==
    CASE outcome = "running"     -> [t EXCEPT !.state = "running",
                                              !.fds = "stdio",
                                              !.bundle = "present"]
      [] outcome = "index_panic" -> [t EXCEPT !.state = "panic",
                                              !.fds = "closed",
                                              !.bundle = "present"]
      [] OTHER                   -> [t EXCEPT !.state = outcome]

\* The outcomes the first part of a task can have.
PrepareOutcomes(t) ==
    IF t.name \notin Containers THEN {"panic"}
    ELSE IF t.nfds < StdioCount THEN {"build_err", "index_panic"}
    ELSE {"build_err", "running"}

\* Variant of TaskPrepare in which the lookup of the container is done by
\* the dispatch loop itself, so that todo!() panics run().
TaskPrepare_InLoop(i) ==
    /\ Running
    /\ i \in DOMAIN tasks
    /\ tasks[i].state = "spawned"
    /\ \E outcome \in PrepareOutcomes(tasks[i]) :
         /\ tasks' = [tasks EXCEPT ![i] = Prepared(tasks[i], outcome)]
         /\ IF tasks[i].name \notin Containers
              THEN Return("container_err")
              ELSE UNCHANGED << runPc, runResult >>
    /\ UNCHANGED << input, output, alias, socketFile, bound, callHandle, serverState,
                    current, backlog, queue, cancellationHandle, wrapper,
                    cancelled, cancelCount, containerHandles, awaited,
                    removeAttempted, calls, published >>

\* First part of the spawned task: config.get_container_by_name (None is
\* todo!(), a panic), then runtime_generator.build(..).await? , then the
\* descriptors are wrapped in Stdio values and runtime.run starts.
TaskPrepare(i) ==
    /\ Running
    /\ i \in DOMAIN tasks
    /\ tasks[i].state = "spawned"
    /\ \E outcome \in PrepareOutcomes(tasks[i]) :
         tasks' = [tasks EXCEPT ![i] = Prepared(tasks[i], outcome)]
    /\ UNCHANGED << input, output, alias, socketFile, bound, runPc, runResult, callHandle,
                    serverState, current, backlog, queue, cancellationHandle,
                    wrapper, cancelled, cancelCount, containerHandles,
                    awaited, removeAttempted, calls, published >>

\* The names a frame can bring to the listener: the name is part of the JSON
\* payload, which is read only from a frame that is short enough and valid;
\* of the other frames one name stands for all.
CallableNames(frame) ==
    IF frame.valid /\ frame.size < BufferSize THEN Names ELSE {"missing"}

\* The workload run by runtime.run places a call on the socket (TOIP_SOCK);
\* anything in the workload can write to the socket, so the frame may also be
\* malformed.
WorkloadCall(i) ==
    /\ Running
    /\ i \in DOMAIN tasks
    /\ tasks[i].state = "running"
    /\ calls < MaxCalls
    /\ \E frame \in WorkloadFrames :
         \E name \in CallableNames(frame) : CallSend(name, frame)
    /\ UNCHANGED << input, output, alias, socketFile, bound, runPc, runResult, callHandle,
                    serverState, current, queue, tasks, cancellationHandle,
                    wrapper, cancelled, cancelCount, containerHandles,
                    awaited, removeAttempted, published >>

\* A task record after `outcome` of its second part: runtime.run consumed the
\* Stdio values; `runtime.run(..)?` returns before rm_rf::remove on a
\* failure, and a failed rm_rf::remove leaves the directory.
Finished(t, outcome) ==
    [t EXCEPT !.state = outcome,
              !.fds = "closed",
              !.bundle = IF outcome = "ok" THEN "removed" ELSE "present"]

\* Second part of the spawned task: runtime.run(..)? returns, then
\* rm_rf::remove(&bundle_path) gives the task's result.
TaskFinish(i) ==
    /\ Running
    /\ i \in DOMAIN tasks
    /\ tasks[i].state = "running"
    /\ \E outcome \in {"ok", "run_err", "rm_err"} :
         tasks' = [tasks EXCEPT ![i] = Finished(tasks[i], outcome)]
    /\ UNCHANGED << input, output, alias, socketFile, bound, runPc, runResult, callHandle,
                    serverState, current, backlog, queue, cancellationHandle,
                    wrapper, cancelled, cancelCount, containerHandles,
                    awaited, removeAttempted, calls, published >>

\* -------------------------------------------------------- origin wrapper
\* Variant of OriginJoined in which the wrapper does not wait for the
\* container task.
OriginJoined_NoWait(t) == TRUE

\* `container_handle.await` inside the wrapper is ready.
OriginJoined(t) == TaskDone(t)

\* `container_handle.await.context(..)?` : a JoinError (the container task
\* panicked) leaves the wrapper before cancellation_token.cancel().
WrapperCancels(outcome) == outcome # "panic"

\* The wrapper's own result.
WrapperResult(outcome) ==
    CASE outcome = "ok"    -> "ok"
      [] outcome = "panic" -> "join_err"
      [] OTHER             -> "err"

\* The task stored in cancellation_handle: await the origin container task,
\* cancel the token, return the task's result.
OriginWrapper ==
    /\ Running
    /\ wrapper = "waiting"
    /\ OriginJoined(tasks[cancellationHandle])
    /\ LET outcome == tasks[cancellationHandle].state IN
         /\ wrapper' = WrapperResult(outcome)
         /\ IF WrapperCancels(outcome)
              THEN cancelled' = TRUE /\ cancelCount' = cancelCount + 1
              ELSE UNCHANGED << cancelled, cancelCount >>
    /\ UNCHANGED << input, output, alias, socketFile, bound, runPc, runResult, callHandle,
                    serverState, current, backlog, queue, tasks,
                    cancellationHandle, containerHandles, awaited,
                    removeAttempted, calls, published >>

\* ------------------------------------------------------------ run: drain
\* Variant of OriginPropagates that drops the wrapper's result.
OriginPropagates_Never(w) == FALSE

\* `handle.await.context(..)?.context(..)?` on the cancellation handle.
OriginPropagates(w) == w # "ok"

\* Variant of WrapperJoined in which run() does not wait for the handle.
WrapperJoined_NoWait(w) == TRUE

\* `handle.await` on the cancellation handle is ready: the wrapper is through.
WrapperJoined(w) == w \in {"ok", "err", "join_err"}

\* `if let Some(handle) = cancellation_handle { handle.await ?? }`
RunAwaitOrigin ==
    /\ runPc = "await_origin"
    /\ cancellationHandle # 0 => WrapperJoined(wrapper)
    /\ IF cancellationHandle # 0 /\ OriginPropagates(wrapper)
         THEN Return("origin_err")
         ELSE runPc' = "await_server" /\ UNCHANGED runResult
    /\ UNCHANGED << input, output, alias, socketFile, bound, callHandle, serverState,
                    current, backlog, queue, tasks, cancellationHandle,
                    wrapper, cancelled, cancelCount, containerHandles,
                    awaited, removeAttempted, calls, published >>

\* `server_handle.await ?? `
RunAwaitServer ==
    /\ runPc = "await_server"
    /\ serverState \in ServerFinished
    /\ IF serverState \in ServerFailed
         THEN Return("server_err")
         ELSE runPc' = "remove_socket" /\ UNCHANGED runResult
    /\ UNCHANGED << input, output, alias, socketFile, bound, callHandle, serverState,
                    current, backlog, queue, tasks, cancellationHandle,
                    wrapper, cancelled, cancelCount, containerHandles,
                    awaited, removeAttempted, calls, published >>

\* `fs::remove_file(&socket)?`
RunRemoveSocket ==
    /\ runPc = "remove_socket"
    /\ removeAttempted' = TRUE
    /\ IF socketFile
         THEN socketFile' = FALSE /\ runPc' = "drain" /\ UNCHANGED runResult
         ELSE Return("remove_err") /\ UNCHANGED socketFile
    /\ UNCHANGED << input, output, alias, bound, callHandle, serverState, current, backlog,
                    queue, tasks, cancellationHandle, wrapper, cancelled,
                    cancelCount, containerHandles, awaited, calls, published >>

\* `finished_container.context(..)?.context(..)?` in the drain loop.
DrainAborts(outcome) == outcome # "ok"

\* `while let Some(finished_container) = container_handles.next().await`:
\* FuturesUnordered yields any finished handle not yet yielded.
RunDrain ==
    /\ runPc = "drain"
    /\ \E i \in containerHandles \ awaited :
         /\ TaskDone(tasks[i])
         /\ awaited' = awaited \cup {i}
         /\ IF DrainAborts(tasks[i].state)
              THEN Return("container_err")
              ELSE UNCHANGED << runPc, runResult >>
    /\ UNCHANGED << input, output, alias, socketFile, bound, callHandle, serverState,
                    current, backlog, queue, tasks, cancellationHandle,
                    wrapper, cancelled, cancelCount, containerHandles,
                    removeAttempted, calls, published >>

\* container_handles is exhausted: `Ok(())`.
RunDrainDone ==
    /\ runPc = "drain"
    /\ containerHandles \subseteq awaited
    /\ Return("ok")
    /\ UNCHANGED << input, output, alias, socketFile, bound, callHandle, serverState,
                    current, backlog, queue, tasks, cancellationHandle,
                    wrapper, cancelled, cancelCount, containerHandles,
                    awaited, removeAttempted, calls, published >>

\* ---------------------------------------------------------- specification
Next ==
    \/ RunSetup
    \/ BootstrapCall
    \/ RunAwaitCall
    \/ ListenAccept
    \/ Handle
    \/ ListenCancel
    \/ RunDispatch
    \/ RunStreamEnd
    \/ \E i \in 1..MaxCalls : TaskPrepare(i)
    \/ \E i \in 1..MaxCalls : WorkloadCall(i)
    \/ \E i \in 1..MaxCalls : TaskFinish(i)
    \/ OriginWrapper
    \/ RunAwaitOrigin
    \/ RunAwaitServer
    \/ RunRemoveSocket
    \/ RunDrain
    \/ RunDrainDone

Spec == Init /\ [][Next]_vars

TypeOK ==
    /\ alias \in Names
    /\ socketFile \in BOOLEAN
    /\ bound \in BOOLEAN
    /\ runPc \in {"setup", "await_call", "dispatch", "await_origin",
                  "await_server", "remove_socket", "drain", "returned"}
    /\ runResult \in {"none", "ok", "bind_err", "call_err", "origin_err",
                      "server_err", "remove_err", "container_err"}
    /\ callHandle \in {"none", "running", "ok", "err"}
    /\ serverState \in {"none", "listening", "handling"} \cup ServerFinished
    /\ current \in Conns \cup {NoConn}
    /\ backlog \in Seq(Conns)
    /\ Len(queue) <= ChannelCapacity
    /\ \A k \in DOMAIN queue :
         queue[k] \in [id : 1..MaxCalls, name : Names, nfds : FdCounts]
    /\ \A k \in DOMAIN tasks :
         /\ tasks[k].id \in 1..MaxCalls
         /\ tasks[k].name \in Names
         /\ tasks[k].nfds \in FdCounts
         /\ tasks[k].fds \in {"raw", "stdio", "closed"}
         /\ tasks[k].bundle \in {"none", "present", "removed"}
         /\ tasks[k].state \in {"spawned", "running"} \cup TaskOutcomes
    /\ cancellationHandle \in 0..Len(tasks)
    /\ wrapper \in {"none", "waiting", "ok", "err", "join_err"}
    /\ cancelled \in BOOLEAN
    /\ cancelCount \in Nat
    /\ containerHandles \subseteq DOMAIN tasks
    /\ awaited \subseteq containerHandles
    /\ removeAttempted \in BOOLEAN
    /\ calls \in 0..MaxCalls
    /\ published \in Seq(1..MaxCalls)
    /\ input = << >>
    /\ output = << >>

\* ------------------------------------------------ the runtime's workers
\* runtime.run(..) is an ordinary blocking call inside the spawned task: the
\* worker thread that polls a container task stays in it until the workload
\* has finished.
BusyWorkers ==
    Cardinality({ i \in DOMAIN tasks : tasks[i].state = "running" })

\* A spawned task is polled only by a worker thread that is not inside a
\* blocking call.
WorkerFree == BusyWorkers < WorkerThreads

\* run() itself is the future of block_on and is polled by the main thread;
\* every tokio::spawn'ed task needs a worker; a running workload goes on by
\* itself.
PoolNext ==
    \/ RunSetup
    \/ WorkerFree /\ BootstrapCall
    \/ RunAwaitCall
    \/ WorkerFree /\ ListenAccept
    \/ WorkerFree /\ Handle
    \/ WorkerFree /\ ListenCancel
    \/ RunDispatch
    \/ RunStreamEnd
    \/ \E i \in 1..MaxCalls : WorkerFree /\ TaskPrepare(i)
    \/ \E i \in 1..MaxCalls : WorkloadCall(i)
    \/ \E i \in 1..MaxCalls : TaskFinish(i)
    \/ WorkerFree /\ OriginWrapper
    \/ RunAwaitOrigin
    \/ RunAwaitServer
    \/ RunRemoveSocket
    \/ RunDrain
    \/ RunDrainDone

PoolSpec == Init /\ [][PoolNext]_vars

\* ------------------------------------------------------- a burst of calls
\* The origin workload places call after call for `helper`, each a
\* well-formed frame that fits the buffer.
BurstCall ==
    /\ Running
    /\ tasks # << >>
    /\ tasks[1].state = "running"
    /\ calls < MaxBurst
    /\ Len(backlog) < MaxPending
    /\ CallSend("helper", [size |-> BufferSize - 1, valid |-> TRUE,
                            nfds |-> StdioCount])
    /\ UNCHANGED << input, output, alias, socketFile, bound, runPc, runResult,
                    callHandle, serverState, current, queue, tasks,
                    cancellationHandle, wrapper, cancelled, cancelCount,
                    containerHandles, awaited, removeAttempted, published >>

\* The run of `shell` with no socket file left behind.
QueueInit == Init /\ alias = "shell" /\ ~socketFile

\* The run while the origin workload is calling: the listener accepts and
\* publishes, the dispatch loop takes instructions at its own pace, the task
\* of the first instruction starts its workload.
QueueNext ==
    \/ RunSetup
    \/ BootstrapCall
    \/ RunAwaitCall
    \/ ListenAccept
    \/ Handle
    \/ RunDispatch
    \/ TaskPrepare(1)
    \/ BurstCall

QueueSpec == QueueInit /\ [][QueueNext]_vars

\* ---------------------------------------------------------------- parser
\* Strings are sequences of one-character strings.
Drop(s, n) == SubSeq(s, n + 1, Len(s))

Take(s, n) == SubSeq(s, 1, n)

StartsWith(s, t) == Len(s) >= Len(t) /\ Take(s, Len(t)) = t

ParseOk(rest, value) == [ok |-> TRUE, rest |-> rest, value |-> value]

ParseErr == [ok |-> FALSE]

LowerCase == << "a", "b", "c", "d", "e", "f", "g", "h", "i", "j", "k", "l",
               "m", "n", "o", "p", "q", "r", "s", "t", "u", "v", "w", "x",
               "y", "z" >>

UpperCase == << "A", "B", "C", "D", "E", "F", "G", "H", "I", "J", "K", "L",
               "M", "N", "O", "P", "Q", "R", "S", "T", "U", "V", "W", "X",
               "Y", "Z" >>

DigitChars == << "0", "1", "2", "3", "4", "5", "6", "7", "8", "9" >>

Range(s) == { s[k] : k \in DOMAIN s }

\* multispace0 takes spaces, tabs, carriage returns and line feeds.
Whitespace == {" ", "\t", "\r", "\n"}

\* fn token_char: false for '\x00'..='\x20' (of which the model's inputs have
\* the whitespace) and for the characters of the match arm, true otherwise.
token_char(ch) ==
    ch \notin Whitespace
              \cup {"\"", "'", ">", "<", "|", ";", "{", "}", "$"}

\* fn var_char
var_char(ch) ==
    ch \in Range(LowerCase) \cup Range(UpperCase) \cup Range(DigitChars)
              \cup {"_"}

\* take_while(token_char): the number of leading token characters of `s`.
LeadingTokenChars(s) ==
    CHOOSE n \in 0..Len(s) :
        /\ \A k \in 1..n : token_char(s[k])
        /\ n < Len(s) => ~token_char(s[n + 1])

\* take_while(var_char)
LeadingVarChars(s) ==
    CHOOSE n \in 0..Len(s) :
        /\ \A k \in 1..n : var_char(s[k])
        /\ n < Len(s) => ~var_char(s[n + 1])

\* The number of leading whitespace characters of `s`.
LeadingSpaces(s) ==
    CHOOSE n \in 0..Len(s) :
        /\ \A k \in 1..n : s[k] \in Whitespace
        /\ n < Len(s) => s[n + 1] \notin Whitespace

\* multispace0
SkipSpace(s) == Drop(s, LeadingSpaces(s))

\* Positions at which `t` occurs in `s`.
Occurrences(s, t) ==
    { k \in 1..(Len(s) - Len(t) + 1) : SubSeq(s, k, k + Len(t) - 1) = t }

\* delimited(tag(open), take_until(close), tag(close))
Delimited(s, open, close) ==
    IF ~StartsWith(s, open) THEN ParseErr
    ELSE LET body == Drop(s, Len(open))
             at == Occurrences(body, close)
         IN IF at = {} THEN ParseErr
            ELSE LET k == CHOOSE k \in at : \A j \in at : k <= j
                 IN ParseOk(Drop(body, k - 1 + Len(close)), Take(body, k - 1))

\* map(.., |s| Token(s)): the text a parser matched, as a token of `type`.
AsToken(r, type) ==
    IF r.ok THEN ParseOk(r.rest, [type |-> type, text |-> r.value])
    ELSE ParseErr

\* take_while1(Test), given the number of leading characters it takes.
TakeWhile1(s, n) == IF n = 0 THEN ParseErr ELSE ParseOk(Drop(s, n), Take(s, n))

\* fn bare: take_while1(token_char)
bare(s) == AsToken(TakeWhile1(s, LeadingTokenChars(s)), "Bare")

\* fn quoted
quoted(s) == AsToken(Delimited(s, << "\"" >>, << "\"" >>), "Bare")

\* char(ch) after a parser: the result of `r` with `ch` taken from its rest.
ThenChar(r, ch) ==
    IF r.ok /\ StartsWith(r.rest, << ch >>)
      THEN ParseOk(Drop(r.rest, 1), r.value)
      ELSE ParseErr

\* take_while1(var_char) after tag("${")
VarName(s) ==
    IF StartsWith(s, << "$", "{" >>)
      THEN TakeWhile1(Drop(s, 2), LeadingVarChars(Drop(s, 2)))
      ELSE ParseErr

\* fn env_var: delimited(tag("${"), take_while1(var_char), char('}'))
env_var(s) == AsToken(ThenChar(VarName(s), "}"), "EnvVariable")

\* fn tilde
tilde(s) ==
    IF StartsWith(s, << "~" >>) THEN ParseOk(Drop(s, 1), [type |-> "Tilde"])
    ELSE ParseErr

\* fn caret
caret(s) ==
    IF StartsWith(s, << "^" >>) THEN ParseOk(Drop(s, 1), [type |-> "Caret"])
    ELSE ParseErr

\* index.to_digit(10)
DigitValue(ch) == CHOOSE d \in 0..9 : DigitChars[d + 1] = ch

\* Variant of argument that takes every digit after the `$` as the index.
argument_AllDigits(s) ==
    IF Len(s) >= 2 /\ s[1] = "$" /\ s[2] \in Range(DigitChars)
      THEN LET n == CHOOSE n \in 1..(Len(s) - 1) :
                      /\ \A k \in 1..n : s[1 + k] \in Range(DigitChars)
                      /\ 1 + n < Len(s) => s[2 + n] \notin Range(DigitChars)
           IN ParseOk(Drop(s, 1 + n),
                      [type |-> "ArgumentIndex",
                       index |-> DigitValue(s[1 + n])])
      ELSE ParseErr

\* fn argument: preceded(char('$'), one_of("0123456789"))
argument(s) ==
    IF Len(s) >= 2 /\ s[1] = "$" /\ s[2] \in Range(DigitChars)
      THEN ParseOk(Drop(s, 2),
                   [type |-> "ArgumentIndex", index |-> DigitValue(s[2])])
      ELSE ParseErr

\* tag("echo test")(matched)? : the remaining input returned is what follows
\* `echo test` inside the parentheses.
SubShellOf(r) ==
    LET tag == << "e", "c", "h", "o", " ", "t", "e", "s", "t" >>
    IN IF r.ok /\ StartsWith(r.value, tag)
         THEN ParseOk(Drop(r.value, Len(tag)),
                      [type |-> "SubShell", text |-> tag])
         ELSE ParseErr

\* fn sub_shell: the text between `$(` and `)` must start with `echo test`.
sub_shell(s) == SubShellOf(Delimited(s, << "$", "(" >>, << ")" >>))

\* alt: the result of the first alternative that succeeds, the alternatives'
\* results given in order.
FirstOk(results) ==
    IF \E k \in DOMAIN results : results[k].ok
      THEN results[CHOOSE k \in DOMAIN results :
                     /\ results[k].ok
                     /\ \A j \in 1..(k - 1) : ~results[j].ok]
      ELSE ParseErr

\* alt((sub_shell, tilde, caret, argument, env_var, bare, quoted))
ProcessTokenAlt(s) ==
    FirstOk(<< sub_shell(s), tilde(s), caret(s), argument(s), env_var(s),
               bare(s), quoted(s) >>)

\* The trailing multispace0 of delimited(multispace0, .., multispace0).
TrimRest(r) == IF r.ok THEN ParseOk(SkipSpace(r.rest), r.value) ELSE ParseErr

\* delimited(multispace0, alt(..), multispace0)
ProcessElement(s) == TrimRest(ProcessTokenAlt(SkipSpace(s)))

RECURSIVE ProcessTokens(_, _)
\* One turn of the loop of many1, `r` the element parser's result on `s`: go
\* on after a success, end with what was collected at a failure.
ProcessTokensLoop(s, acc, r) ==
    IF r.ok THEN ProcessTokens(r.rest, Append(acc, r.value))
    ELSE ParseOk(s, acc)

\* The loop of many1 over the element parser.
ProcessTokens(s, acc) == ProcessTokensLoop(s, acc, ProcessElement(s))

\* many1 fails when its first application fails.
Many1(r) == IF r.value = << >> THEN ParseErr ELSE r

\* fn process
process(s) == Many1(ProcessTokens(s, << >>))

\* char('|') and the multispace0 after it.
PipeAfterSpace(s) ==
    IF StartsWith(s, << "|" >>) THEN ParseOk(SkipSpace(Drop(s, 1)), "|")
    ELSE ParseErr

\* delimited(multispace0, char('|'), multispace0)
PipeSeparator(s) == PipeAfterSpace(SkipSpace(s))

RECURSIVE GroupProcesses(_, _)
\* separated_nonempty_list after a separator, `r` the result of `process`
\* behind it: a separator that is not followed by an element is not
\* consumed.
GroupElement(s, acc, r) ==
    IF r.ok THEN GroupProcesses(r.rest, Append(acc, r.value))
    ELSE ParseOk(s, acc)

\* separated_nonempty_list after an element, `sep` the separator's result.
GroupSeparated(s, acc, sep) ==
    IF sep.ok THEN GroupElement(s, acc, process(sep.rest))
    ELSE ParseOk(s, acc)

\* The loop of separated_nonempty_list.
GroupProcesses(s, acc) == GroupSeparated(s, acc, PipeSeparator(s))

\* separated_nonempty_list fails when its first element fails.
GroupFirst(r) ==
    IF r.ok THEN GroupProcesses(r.rest, << r.value >>) ELSE ParseErr

\* fn process_group: separated_nonempty_list(`|`, process)
process_group(s) == GroupFirst(process(s))

\* fn shell_and
shell_and(s) ==
    IF StartsWith(s, << "&", "&" >>) THEN ParseOk(Drop(s, 2), [type |-> "And"])
    ELSE ParseErr

\* fn shell_or
shell_or(s) ==
    IF StartsWith(s, << "|", "|" >>) THEN ParseOk(Drop(s, 2), [type |-> "Or"])
    ELSE ParseErr

\* map(process_group, |pg| ShellToken::Process(pg))
AsProcess(r) ==
    IF r.ok THEN ParseOk(r.rest, [type |-> "Process", group |-> r.value])
    ELSE ParseErr

\* alt((shell_and, shell_or, map(process_group, ..)))
ShellTokenAlt(s) ==
    FirstOk(<< shell_and(s), shell_or(s), AsProcess(process_group(s)) >>)

RECURSIVE ShellTokens(_, _)
\* One turn of the loop of many1 in `shell`.
ShellTokensLoop(s, acc, r) ==
    IF r.ok THEN ShellTokens(r.rest, Append(acc, r.value))
    ELSE ParseOk(s, acc)

ShellTokens(s, acc) == ShellTokensLoop(s, acc, ShellTokenAlt(s))

\* fn shell: many1(alt(..))
shell(s) == Many1(ShellTokens(s, << >>))

\* Every string of at most n characters of `chars`.
RECURSIVE Strings(_, _)
Strings(chars, n) ==
    IF n = 0 THEN { << >> }
    ELSE LET shorter == Strings(chars, n - 1)
         IN shorter \cup { Append(t, ch) : t \in shorter, ch \in chars }

\* Inputs of the `argument` parser.
ArgumentInputs == Strings({"$", "0", "1", "9", "a"}, MaxInputLen)

\* Sequences of at most MaxOps operators.
OperatorLists == Strings({"&&", "||"}, MaxOps)

\* The words a, b, c, .. joined by the operators of `ops`, with one space on
\* either side of an operator: `a && b || c`.
RECURSIVE Joined(_)
Joined(ops) ==
    IF ops = << >> THEN << LowerCase[1] >>
    ELSE Joined(Take(ops, Len(ops) - 1))
           \o << " " >>
           \o (IF ops[Len(ops)] = "&&" THEN << "&", "&" >> ELSE << "|", "|" >>)
           \o << " " >>
           \o << LowerCase[Len(ops) + 1] >>

\* Inputs of the `shell` parser.
ShellInputs == { Joined(ops) : ops \in OperatorLists }

\* No `run` is going on: the state of the orchestration stays as it is
\* before setup.
NoRun ==
    /\ alias = "shell"
    /\ socketFile = FALSE
    /\ bound = FALSE
    /\ runPc = "setup"
    /\ runResult = "none"
    /\ callHandle = "none"
    /\ serverState = "none"
    /\ current = NoConn
    /\ backlog = << >>
    /\ queue = << >>
    /\ tasks = << >>
    /\ cancellationHandle = 0
    /\ wrapper = "none"
    /\ cancelled = FALSE
    /\ cancelCount = 0
    /\ containerHandles = {}
    /\ awaited = {}
    /\ removeAttempted = FALSE
    /\ calls = 0
    /\ published = << >>

ParserInit ==
    /\ input \in ArgumentInputs \cup ShellInputs
    /\ output = << >>
    /\ NoRun

\* argument(input)
ParseArgument ==
    /\ output = << >>
    /\ output' = << [fn |-> "argument", result |-> argument(input)] >>
    /\ UNCHANGED << runVars, input >>

\* shell(input)
ParseShell ==
    /\ output = << >>
    /\ output' = << [fn |-> "shell", result |-> shell(input)] >>
    /\ UNCHANGED << runVars, input >>

ParserNext ==
    \/ ParseArgument
    \/ ParseShell

ParserSpec == ParserInit /\ [][ParserNext]_vars

\* ----------------------------------------------- workload environment
\* Strings of the environment are sequences of tokens; "=" and ":" are
\* tokens of their own.
\* CONTAINER_SOCKET / container_socket(), CONTAINER_BIN_DIR
ContainerSocket == "/run/toip/sock"
ContainerBinDir == "/usr/bin/toip"

\* image: the image's Env list, entries `NAME=value` and entries without
\* `=`; config: the `env` table of a container configuration, a HashMap from
\* names to values; path: the PATH the backend determines for the image.
EnvInputs ==
    LET names == {"TOIP_SOCK", "PATH", "HOME"}
        values == { << "a" >>, << "a", "=", "b" >> }
        entries == { << n >> \o t :
                       n \in names,
                       t \in { << >> } \cup { << "=" >> \o v : v \in values } }
    IN [image : UNION { [1..n -> entries] : n \in 0..MaxImageEnv },
        config : UNION { [S -> values] : S \in SUBSET names },
        path : { << "/usr/bin" >>, << ContainerBinDir, ":", "/usr/bin" >> }]

\* Position of the first `=` of an entry.
FirstEquals(e) ==
    CHOOSE k \in DOMAIN e : e[k] = "=" /\ \A j \in 1..(k - 1) : e[j] # "="

\* env.splitn(2, '='): first and second part.
SplitKey(e) == Take(e, FirstEquals(e) - 1)

SplitValue(e) == Drop(e, FirstEquals(e))

\* The HashMap after the inserts of the image's entries, in list order: a
\* later entry replaces an earlier one of the same key.
ImageMap(entries) ==
    [key \in { SplitKey(entries[i]) : i \in DOMAIN entries } |->
        SplitValue(entries[CHOOSE i \in DOMAIN entries :
                             /\ SplitKey(entries[i]) = key
                             /\ \A j \in DOMAIN entries :
                                   SplitKey(entries[j]) = key => j <= i])]

\* The configuration's table with its names as strings of one token.
ConfigMap(config) ==
    [key \in { << n >> : n \in DOMAIN config } |-> config[key[1]]]

\* map.extend / map.insert: the entries of `m2` replace those of `m1`.
Merge(m1, m2) ==
    [key \in DOMAIN m1 \cup DOMAIN m2 |->
        IF key \in DOMAIN m2 THEN m2[key] ELSE m1[key]]

\* `new_path`: the bin directory appended to a PATH already in the map.
NewPath(m) ==
    IF << "PATH" >> \in DOMAIN m
      THEN m[<< "PATH" >>] \o << ":", ContainerBinDir >>
      ELSE << ContainerBinDir >>

\* The two inserts at the end of build_env.
WithPathAndSocket(m) ==
    Merge(m, (<< "PATH" >> :> NewPath(m))
               @@ (<< "TOIP_SOCK" >> :> << ContainerSocket >>))

\* fn build_env: the map before map.into_iter().
EnvMap(image, config) ==
    WithPathAndSocket(Merge(ImageMap(image), ConfigMap(config)))

\* The orders in which a HashMap may yield the keys `S`.
Orders(S) ==
    { o \in [1..Cardinality(S) -> S] :
        \A i, j \in 1..Cardinality(S) : o[i] = o[j] => i = j }

\* format!("{}={}", env.0, env.1) for the entries of `m` in order `o`.
FormatEnv(m, o) == [i \in DOMAIN o |-> o[i] \o << "=" >> \o m[o[i]]]

\* fn create_env_vars: the configuration's variables in the order `o` of
\* the HashMap, then TOIP_SOCK, then `path`.
create_env_vars(path, config, o) ==
    [i \in DOMAIN o |-> [name |-> o[i], value |-> config[o[i]]]]
      \o << [name |-> "TOIP_SOCK", value |-> << ContainerSocket >>],
            [name |-> "path", value |-> path] >>

EnvInit ==
    /\ input \in EnvInputs
    /\ output = << >>
    /\ NoRun

\* build_env(image, config): `parts.next().unwrap()` panics on an entry of
\* the image without `=`.
BuildEnv ==
    /\ output = << >>
    /\ IF \E i \in DOMAIN input.image : "=" \notin Range(input.image[i])
         THEN output' = << [fn |-> "build_env", ok |-> FALSE, env |-> << >>] >>
         ELSE \E o \in Orders(DOMAIN EnvMap(input.image, input.config)) :
                output' = << [fn |-> "build_env", ok |-> TRUE,
                              env |-> FormatEnv(EnvMap(input.image,
                                                       input.config), o)] >>
    /\ UNCHANGED << runVars, input >>

\* self.create_env_vars(path, container_config)
CreateEnvVars ==
    /\ output = << >>
    /\ \E o \in Orders(DOMAIN input.config) :
         output' = << [fn |-> "create_env_vars", ok |-> TRUE,
                       env |-> create_env_vars(input.path, input.config, o)] >>
    /\ UNCHANGED << runVars, input >>

EnvNext ==
    \/ BuildEnv
    \/ CreateEnvVars

EnvSpec == EnvInit /\ [][EnvNext]_vars

\* ----------------------------------------------------- framing of a call
\* The fixed text of serde_json::to_string(&call_info), the fields in the
\* order of the struct: {"name":  ,"arguments":[  ],"envargs":{}}
OpenText == << "{", "\"", "n", "a", "m", "e", "\"", ":" >>

MidText == << ",", "\"", "a", "r", "g", "u", "m", "e", "n", "t", "s", "\"",
              ":", "[" >>

CloseText == << "]", ",", "\"", "e", "n", "v", "a", "r", "g", "s", "\"", ":",
                "{", "}", "}" >>

\* serde_json writes `"`, `\` and a line feed of a string as `\"`, `\\`, `\n`.
EscapeChar(ch) ==
    CASE ch = "\"" -> << "\\", "\"" >>
      [] ch = "\\" -> << "\\", "\\" >>
      [] ch = "\n" -> << "\\", "n" >>
      [] OTHER     -> << ch >>

\* The character written as `\` followed by `ch`.
UnescapeChar(ch) == IF ch = "n" THEN "\n" ELSE ch

RECURSIVE Escaped(_)
\* The characters of a string as serde_json writes them between the quotes.
Escaped(s) ==
    IF Len(s) = 0 THEN << >>
    ELSE IF Len(s) = 1 THEN EscapeChar(s[1])
    ELSE Escaped(Take(s, Len(s) \div 2)) \o Escaped(Drop(s, Len(s) \div 2))

JsonString(s) == << "\"" >> \o Escaped(s) \o << "\"" >>

RECURSIVE JsonStrings(_)
\* The elements of a Vec<String>, separated by commas.
JsonStrings(list) ==
    IF list = << >> THEN << >>
    ELSE IF Len(list) = 1 THEN JsonString(list[1])
    ELSE JsonStrings(Take(list, Len(list) - 1)) \o << "," >>
           \o JsonString(list[Len(list)])

\* serde_json::to_string(&call_info); envargs is HashMap::new().
to_string(info) ==
    OpenText \o JsonString(info.name) \o MidText \o JsonStrings(info.arguments)
      \o CloseText

\* size.to_be_bytes() of a u32
to_be_bytes(n) ==
    << (n \div 16777216) % 256, (n \div 65536) % 256, (n \div 256) % 256,
       n % 256 >>

\* u32::from_be_bytes
from_be_bytes(b) == b[1] * 16777216 + b[2] * 65536 + b[3] * 256 + b[4]

\* What call() puts on the socket in one send: the length, the JSON text and
\* an SCM_RIGHTS message with its descriptors 0, 1, 2, here the open files
\* they refer to.
Encoded(info, files) ==
    [prefix |-> to_be_bytes(Len(to_string(info))),
     payload |-> to_string(info),
     rights |-> << files[1], files[2], files[3] >>]

\* Number of consecutive backslashes of `s` that end at position i.
Backslashes(s, i) ==
    CHOOSE n \in 0..i :
        /\ \A j \in (i - n + 1)..i : s[j] = "\\"
        /\ n < i => s[i - n] # "\\"

\* Positions after the first of `s` that hold a quote which no backslash
\* escapes.
ClosingQuotes(s) ==
    { k \in 2..Len(s) : s[k] = "\"" /\ Backslashes(s, k - 1) % 2 = 0 }

\* Position of the quote that ends the string starting at s[1], 0 if none.
ClosingQuote(s) ==
    IF ClosingQuotes(s) = {} THEN 0
    ELSE CHOOSE k \in ClosingQuotes(s) : \A j \in ClosingQuotes(s) : k <= j

\* Where to cut `s` in two without parting a backslash from the character it
\* escapes.
SplitPoint(s) ==
    IF Backslashes(s, Len(s) \div 2) % 2 = 1 THEN (Len(s) \div 2) + 1
    ELSE Len(s) \div 2

RECURSIVE Unescaped(_)
\* The string that the text between two quotes stands for.
Unescaped(s) ==
    IF Len(s) <= 1 THEN s
    ELSE IF Len(s) = 2 /\ s[1] = "\\" THEN << UnescapeChar(s[2]) >>
    ELSE Unescaped(Take(s, SplitPoint(s))) \o Unescaped(Drop(s, SplitPoint(s)))

\* The JSON string of `s` that ends at position k.
StringUpTo(s, k) ==
    IF k = 0 THEN ParseErr
    ELSE ParseOk(Drop(s, k), Unescaped(SubSeq(s, 2, k - 1)))

\* A JSON string at the start of `s`.
json_string(s) ==
    IF StartsWith(s, << "\"" >>) THEN StringUpTo(s, ClosingQuote(s)) ELSE ParseErr

RECURSIVE ArgumentsFrom(_, _)
\* After an element of the array: a comma and a further element, or the end.
ArgumentsNext(s, acc) ==
    IF StartsWith(s, << "," >>)
      THEN ArgumentsFrom(json_string(Drop(s, 1)), acc)
      ELSE ParseOk(s, acc)

\* The array with `r` the result of reading its next element.
ArgumentsFrom(r, acc) ==
    IF r.ok THEN ArgumentsNext(r.rest, Append(acc, r.value)) ELSE ParseErr

\* The elements of a JSON array of strings, up to its `]`.
json_strings(s) ==
    IF StartsWith(s, << "]" >>) THEN ParseOk(s, << >>)
    ELSE ArgumentsFrom(json_string(s), << >>)

\* The CallInfo when the text after the arguments is the end of the object
\* and of the input.
WithArguments(name, r) ==
    IF r.ok /\ r.rest = CloseText
      THEN ParseOk(<< >>, [name |-> name, arguments |-> r.value,
                           envargs |-> << >>])
      ELSE ParseErr

WithName(r) ==
    IF r.ok /\ StartsWith(r.rest, MidText)
      THEN WithArguments(r.value, json_strings(Drop(r.rest, Len(MidText))))
      ELSE ParseErr

\* serde_json::from_slice::<CallInfo> on the text to_string writes.
from_slice(bytes) ==
    IF StartsWith(bytes, OpenText)
      THEN WithName(json_string(Drop(bytes, Len(OpenText))))
      ELSE ParseErr

\* `&buf2[0..message_size]` after one recv into buf1 and the 1024 bytes of
\* buf2: what of the payload fits the buffer, and zero bytes after it.
Slice(payload, size) ==
    [k \in 1..size |-> IF k <= Len(payload) /\ k <= BufferSize
                         THEN payload[k] ELSE "\\0"]

\* The Call that Inner::handle makes of a frame, or how it fails.
Decoded(frame) ==
    CASE FrameKind(from_be_bytes(frame.prefix), TRUE) = "toolarge"
           -> [outcome |-> "panic"]
      [] FrameKind(from_be_bytes(frame.prefix),
                   from_slice(Slice(frame.payload,
                                    from_be_bytes(frame.prefix))).ok)
           = "badjson"
           -> [outcome |-> "err"]
      [] OTHER
           -> [outcome |-> "ok",
               info |-> from_slice(Slice(frame.payload,
                                         from_be_bytes(frame.prefix))).value,
               file_descriptors |-> frame.rights]

\* Size of the JSON text of a CallInfo with a one-character name and one
\* empty argument.
EmptyArgumentSize ==
    Len(to_string([name |-> << "s" >>, arguments |-> << << >> >>]))

\* CallInfos with short names and arguments, and those with one argument
\* that brings the JSON text to the sizes around the receive buffer's.
CallInfos ==
    LET strings == Strings({"a", "\"", "\\"}, MaxStrLen)
    IN [name : strings \ { << >> },
        arguments : UNION { [1..n -> strings] : n \in 0..MaxArgs },
        envargs : { << >> }]
       \cup { [name |-> << "s" >>,
               arguments |-> << [k \in 1..(n - EmptyArgumentSize) |-> "a"] >>,
               envargs |-> << >>] : n \in Sizes }

\* The caller's CallInfo and the open files behind its descriptors 0, 1, 2.
CodecInit ==
    /\ input \in [info : CallInfos,
                  files : { << "tty", "tty", "tty" >>,
                            << "in", "out", "err" >> }]
    /\ output = << >>
    /\ NoRun

\* call(): build the frame and send it.
Encode ==
    /\ output = << >>
    /\ output' = << [fn |-> "call",
                     frame |-> Encoded(input.info, input.files)] >>
    /\ UNCHANGED << runVars, input >>

\* Inner::handle on the frame received.
Decode ==
    /\ Len(output) = 1
    /\ output' = Append(output, [fn |-> "handle",
                                 call |-> Decoded(output[1].frame)])
    /\ UNCHANGED << runVars, input >>

CodecNext ==
    \/ Encode
    \/ Decode

CodecSpec == CodecInit /\ [][CodecNext]_vars

\* ------------------------------------------------------------ stdio frames
\* Bytes are numbers 0..255.
\* fn header: the marker of the kind, three zero bytes and size[0..3] of
\* item.data.len().to_be_bytes(); `width` is the number of bytes of a usize
\* on the target of the build. A length of the model is below 256^4, so its
\* bytes above the lowest four are zero.
header(item, width) ==
    LET size == [k \in 1..width |->
                   IF width - k >= 4 THEN 0
                   ELSE (Len(item.data) \div (256 ^ (width - k))) % 256]
    IN << CASE item.kind = "Err" -> 2
            [] item.kind = "Out" -> 1
            [] item.kind = "In" -> 0,
          0, 0, 0, size[1], size[2], size[3], size[4] >>

\* fn encode: dst.put(&header[..]); dst.put(item.data)
encode(item, dst, width) == dst \o header(item, width) \o item.data

RECURSIVE Written(_, _)
\* The bytes of `items` encoded one after the other into one buffer.
Written(items, width) ==
    IF items = << >> THEN << >>
    ELSE encode(items[Len(items)],
                Written(Take(items, Len(items) - 1), width), width)

\* Variant of AwaitingContent that takes all of the buffer as the content.
AwaitingContent_TakesAll(d) ==
    IF Len(d.src) < d.length THEN [d EXCEPT !.item = << >>]
    ELSE IF d.typ > 2 THEN [d EXCEPT !.state = "panicked", !.src = << >>]
    ELSE [state |-> "AwaitingHeader", typ |-> 0, length |-> 0,
          src |-> << >>,
          item |-> << [kind |-> << "In", "Out", "Err" >>[d.typ + 1],
                       data |-> d.src] >>]

\* The arm DecoderState::AwaitingContent(typ, length) of decode: Ok(None)
\* while the content is short of `length`, else split_to(length) and the
\* item of the marker; unreachable!() panics on another marker.
AwaitingContent(d) ==
    IF Len(d.src) < d.length THEN [d EXCEPT !.item = << >>]
    ELSE IF d.typ > 2
      THEN [d EXCEPT !.state = "panicked", !.src = Drop(d.src, d.length)]
    ELSE [state |-> "AwaitingHeader", typ |-> 0, length |-> 0,
          src |-> Drop(d.src, d.length),
          item |-> << [kind |-> << "In", "Out", "Err" >>[d.typ + 1],
                       data |-> Take(d.src, d.length)] >>]

\* fn decode: one call, on the decoder `d` with its buffer `src`; `item` is
\* << >> for Ok(None) and << item >> for Ok(Some(item)).
decode(d) ==
    IF d.state = "AwaitingHeader"
      THEN IF Len(d.src) < 8 THEN [d EXCEPT !.item = << >>]
           ELSE AwaitingContent(
                    [state |-> "AwaitingContent",
                     typ |-> d.src[1],
                     length |-> from_be_bytes(SubSeq(d.src, 5, 8)),
                     src |-> Drop(d.src, 8),
                     item |-> << >>])
      ELSE AwaitingContent(d)

RECURSIVE Drained(_, _)
\* decode called again after it returned an item.
DrainedLoop(d, acc) ==
    IF d.item = << >> \/ d.state = "panicked" THEN acc
    ELSE Drained(d, acc \o d.item)

\* The items of successive decode calls on `d` until one returns None.
Drained(d, acc) == DrainedLoop(decode(d), acc)

\* StdioDecoder::new(): DecoderState::AwaitingHeader, on the buffer `src`.
NewDecoder(src) ==
    [state |-> "AwaitingHeader", typ |-> 0, length |-> 0, src |-> src,
     item |-> << >>]

\* The items to send, and the size of a usize of the build: 4 bytes on a
\* 32-bit target, 8 bytes on a 64-bit target.
StdioInit ==
    /\ input \in
         LET datas == UNION { [1..n -> {7}] : n \in 0..MaxPayload }
             items == [kind : {"In", "Out", "Err"}, data : datas]
         IN [items : UNION { [1..n -> items] : n \in 1..MaxFrames },
             width : {4, 8}]
    /\ output = << >>
    /\ NoRun

\* The sender encodes its items into the stream; nothing of it has reached
\* the receiver's decoder yet.
StdioEncode ==
    /\ output = << >>
    /\ output' = << [stream |-> Written(input.items, input.width),
                     rest |-> Written(input.items, input.width),
                     decoder |-> NewDecoder(<< >>),
                     emitted |-> << >>,
                     starved |-> FALSE] >>
    /\ UNCHANGED << runVars, input >>

\* A read of the receiver appends the next k bytes of the stream to the
\* decoder's buffer.
StdioRead ==
    /\ Len(output) = 1
    /\ \E k \in 1..Len(output[1].rest) :
         output' = << [output[1] EXCEPT
                         !.rest = Drop(@, k),
                         !.decoder.src = @ \o Take(output[1].rest, k),
                         !.starved = FALSE] >>
    /\ UNCHANGED << runVars, input >>

\* One call of decode; after Ok(None) the next call follows a read.
StdioDecode ==
    /\ Len(output) = 1
    /\ ~output[1].starved
    /\ output[1].decoder.state # "panicked"
    /\ output' = << [output[1] EXCEPT
                       !.decoder = decode(@),
                       !.emitted = @ \o decode(output[1].decoder).item,
                       !.starved =
                           decode(output[1].decoder).item = << >>] >>
    /\ UNCHANGED << runVars, input >>

StdioNext ==
    \/ StdioEncode
    \/ StdioRead
    \/ StdioDecode

StdioSpec == StdioInit /\ [][StdioNext]_vars

\* ------------------------------------------------------------- host ports
\* random.gen_range(1024..u16::MAX), here its first PortChoices values.
PortRange == 1024..(1024 + PortChoices - 1)

\* The ports of a container configuration, each with HostPort::Generated or
\* HostPort::Specified(host), and the host ports that cannot be bound.
PortsInit ==
    /\ input \in
         LET hosts == { [kind |-> "Generated", port |-> 0] }
                        \cup [kind : {"Specified"}, port : PortRange]
         IN [ports : UNION { [1..n -> [host : hosts, container : {80}]] :
                               n \in 1..MaxPortCount },
             unavailable : SUBSET PortRange]
    /\ output = << >>
    /\ NoRun

\* fn is_available: TcpListener::bind(("127.0.0.1", port)).is_ok()
is_available(port) == port \notin input.unavailable

\* The condition of the while loop on the port drawn.
RetryGenerated(generated_ports, generated) ==
    /\ \E k \in DOMAIN generated_ports : generated_ports[k] = generated
    /\ ~is_available(generated)

\* create_ports is entered: no port generated, the iterator at the first
\* port, an empty map.
CreatePorts ==
    /\ output = << >>
    /\ output' = << [next |-> 1, generated_ports |-> << >>, generated |-> 0,
                     hashmap |-> << >>] >>
    /\ UNCHANGED << runVars, input >>

\* HostPort::Specified(host) => (host, port.container); collect() inserts
\* the pair, replacing an entry of the same key.
PortSpecified ==
    /\ Len(output) = 1
    /\ output[1].next \in DOMAIN input.ports
    /\ input.ports[output[1].next].host.kind = "Specified"
    /\ output' = << [output[1] EXCEPT
                       !.next = @ + 1,
                       !.hashmap =
                           Merge(@, input.ports[output[1].next].host.port
                                      :> input.ports[output[1].next].container)
                    ] >>
    /\ UNCHANGED << runVars, input >>

\* random.gen_range(..): the first draw for a Generated port, and a further
\* draw while the loop's condition holds.
PortDraw ==
    /\ Len(output) = 1
    /\ output[1].next \in DOMAIN input.ports
    /\ input.ports[output[1].next].host.kind = "Generated"
    /\ \/ output[1].generated = 0
       \/ RetryGenerated(output[1].generated_ports, output[1].generated)
    /\ \E port \in PortRange :
         output' = << [output[1] EXCEPT !.generated = port] >>
    /\ UNCHANGED << runVars, input >>

\* The loop is left: generated_ports.push(generated) and
\* (generated, port.container) goes into the map.
PortPush ==
    /\ Len(output) = 1
    /\ output[1].next \in DOMAIN input.ports
    /\ output[1].generated # 0
    /\ ~RetryGenerated(output[1].generated_ports, output[1].generated)
    /\ output' = << [next |-> output[1].next + 1,
                     generated_ports |-> Append(output[1].generated_ports,
                                                output[1].generated),
                     generated |-> 0,
                     hashmap |->
                         Merge(output[1].hashmap,
                               output[1].generated
                                 :> input.ports[output[1].next].container)]
                 >>
    /\ UNCHANGED << runVars, input >>

PortsNext ==
    \/ CreatePorts
    \/ PortSpecified
    \/ PortDraw
    \/ PortPush

PortsSpec == PortsInit /\ [][PortsNext]_vars

\* --------------------------------------------------------- container init
\* The process id of the child that spawn starts; the further children of
\* the init have the ids after it.
ChildPid == 2

\* The number of further children the init has.
InitInit ==
    /\ input \in [others : 0..MaxOthers]
    /\ output = << >>
    /\ NoRun

\* fn spawn up to its loop: all signals blocked and read from the signalfd,
\* the child spawned.
InitSpawn ==
    /\ output = << >>
    /\ output' = << [pc |-> "loop",
                     procs |-> [p \in ChildPid..(ChildPid + input.others)
                                  |-> "running"],
                     pending |-> {},
                     zombies |-> << >>,
                     sent |-> 0] >>
    /\ UNCHANGED << runVars, input >>

\* A child of the init terminates: it stays a zombie until it is waited
\* for, and SIGCHLD becomes pending (a pending signal is not queued twice).
ProcessExit ==
    /\ Len(output) = 1
    /\ output[1].pc # "returned"
    /\ \E p \in DOMAIN output[1].procs :
         /\ output[1].procs[p] = "running"
         /\ output' = << [output[1] EXCEPT
                            !.procs[p] = "zombie",
                            !.pending = @ \cup {"SIGCHLD"}] >>
    /\ UNCHANGED << runVars, input >>

\* A signal is sent to the init from outside the container.
SignalSent ==
    /\ Len(output) = 1
    /\ output[1].pc # "returned"
    /\ output[1].sent < MaxSignals
    /\ output' = << [output[1] EXCEPT
                       !.pending = @ \cup {"SIGTERM"},
                       !.sent = @ + 1] >>
    /\ UNCHANGED << runVars, input >>

\* fn handle_signals: sfd.read_signal() takes a pending signal; SIGCHLD
\* enters reap_zombies with an empty vector, any other signal is passed to
\* the child with kill and Ok(Vec::new()) holds no pid.
HandleSignals ==
    /\ Len(output) = 1
    /\ output[1].pc = "loop"
    /\ \E signal \in output[1].pending :
         output' = << [output[1] EXCEPT
                         !.pending = @ \ {signal},
                         !.zombies = << >>,
                         !.pc = IF signal = "SIGCHLD" THEN "reaping"
                                ELSE "loop"] >>
    /\ UNCHANGED << runVars, input >>

\* Ok(pids) of handle_signals in spawn: break when pids contains the pid of
\* the child.
AfterReap(pids) ==
    IF \E k \in DOMAIN pids : pids[k] = ChildPid THEN "returned" ELSE "loop"

\* One waitpid(-1, WNOHANG) of the loop in reap_zombies: a zombie is reaped
\* and pushed; with no zombie but a child alive, StillAlive ends the loop
\* with Ok(zombies); with no child left at all waitpid fails with ECHILD,
\* reap_zombies returns the error and spawn logs it and goes on reading
\* signals.
Waitpid ==
    /\ Len(output) = 1
    /\ output[1].pc = "reaping"
    /\ \/ \E p \in DOMAIN output[1].procs :
            /\ output[1].procs[p] = "zombie"
            /\ output' = << [output[1] EXCEPT
                               !.procs[p] = "reaped",
                               !.zombies = Append(@, p)] >>
       \/ /\ \A p \in DOMAIN output[1].procs : output[1].procs[p] # "zombie"
          /\ \E p \in DOMAIN output[1].procs : output[1].procs[p] = "running"
          /\ output' = << [output[1] EXCEPT
                             !.pc = AfterReap(output[1].zombies)] >>
       \/ /\ \A p \in DOMAIN output[1].procs : output[1].procs[p] = "reaped"
          /\ output' = << [output[1] EXCEPT !.pc = "loop",
                                            !.zombies = << >>] >>
    /\ UNCHANGED << runVars, input >>

InitNext ==
    \/ InitSpawn
    \/ ProcessExit
    \/ SignalSent
    \/ HandleSignals
    \/ Waitpid

InitSpec == InitInit /\ [][InitNext]_vars

\* ------------------------------------------------------------ config file
\* A path is the sequence of its components below the root `/`, as
\* env::current_dir() gives it: absolute, without `.` and `..`.
\* PathBuf::pop: the path without its last component; false, with the path
\* unchanged, when the path is the root.
pop(path) == IF path = << >> THEN path ELSE Take(path, Len(path) - 1)

\* Variant of is_file that is true of every existing entry.
is_file_Exists(path) ==
    /\ path # << >>
    /\ path[Len(path)] = "toip.yaml"
    /\ input.entry[Len(path) - 1] # "none"

\* path.is_file() for `path` a directory of the starting directory's
\* ancestry with CONFIG_FILE_NAME pushed: the entry is a regular file.
is_file(path) ==
    /\ path # << >>
    /\ path[Len(path)] = "toip.yaml"
    /\ input.entry[Len(path) - 1] = "file"

\* The starting directory, and for each directory on the way from the root
\* (depth 0) to it what its entry CONFIG_FILE_NAME is: missing, a regular
\* file or a directory.
FindInit ==
    /\ input \in
         UNION { [start : [1..n -> {"a", "b"}],
                  entry : [0..n -> {"none", "file", "dir"}]] :
                   n \in 0..MaxDepth }
    /\ output = << >>
    /\ NoRun

\* find_config_file is entered: path = starting_dir.into().
FindConfigFile ==
    /\ output = << >>
    /\ output' = << [path |-> input.start, found |-> "searching"] >>
    /\ UNCHANGED << runVars, input >>

\* One turn of the loop: push the file name; break Some(path) if it is a
\* file; else pop the file name and the directory, break None if the second
\* pop has nothing to remove.
FindLoop ==
    /\ Len(output) = 1
    /\ output[1].found = "searching"
    /\ output' =
         << IF is_file(Append(output[1].path, "toip.yaml"))
              THEN [path |-> Append(output[1].path, "toip.yaml"),
                    found |-> "Some"]
            ELSE IF ~(/\ Append(output[1].path, "toip.yaml") # << >>
                      /\ pop(Append(output[1].path, "toip.yaml")) # << >>)
              THEN [path |-> pop(pop(Append(output[1].path, "toip.yaml"))),
                    found |-> "None"]
            ELSE [path |-> pop(pop(Append(output[1].path, "toip.yaml"))),
                  found |-> "searching"] >>
    /\ UNCHANGED << runVars, input >>

FindNext ==
    \/ FindConfigFile
    \/ FindLoop

FindSpec == FindInit /\ [][FindNext]_vars

\* ---------------------------------------------------------------- scripts
\* fn create: format!("#!{} {}\n{}\n", binary.display(), command, argument),
\* the argument being the target of create_run and create_call.
create(binary, command, target) ==
    << "#", "!" >> \o binary \o << " " >> \o command \o << "\n" >>
      \o target \o << "\n" >>

\* Position of the first line feed of `s`, 0 if it has none.
NextFeed(s) ==
    IF \E k \in DOMAIN s : s[k] = "\n"
      THEN CHOOSE k \in DOMAIN s :
             s[k] = "\n" /\ \A j \in 1..(k - 1) : s[j] # "\n"
      ELSE 0

\* A line read up to its line feed: the feed is removed, and a carriage
\* return before it.
StripReturn(line) ==
    IF line # << >> /\ line[Len(line)] = "\r"
      THEN Take(line, Len(line) - 1)
      ELSE line

RECURSIVE lines(_)
\* Variant of LinesFrom that splits at the line feeds: what follows the last
\* feed is a line even when it is empty.
LinesFrom_Split(s, k) ==
    IF k = 0 THEN << s >>
    ELSE << StripReturn(Take(s, k - 1)) >> \o lines(Drop(s, k))

\* The lines of `s` with its first line feed at k: text after the last feed
\* is a line as it stands, no text after it is no line.
LinesFrom(s, k) ==
    IF k = 0 THEN (IF s = << >> THEN << >> ELSE << s >>)
    ELSE << StripReturn(Take(s, k - 1)) >> \o lines(Drop(s, k))

\* BufRead::lines
lines(s) == LinesFrom(s, NextFeed(s))

\* fn read_container: the last of the lines, an error when there is none.
read_container(file) ==
    IF lines(file) = << >> THEN [ok |-> FALSE]
    ELSE [ok |-> TRUE, value |-> lines(file)[Len(lines(file))]]

\* The container name a script is written for, and the command of the
\* script: create_run or create_call.
ScriptInit ==
    /\ input \in [target : Strings({"a", "b", "\r", "\n"}, MaxNameLen),
                  command : { << "r", "u", "n" >>, << "c", "a", "l", "l" >> }]
    /\ output = << >>
    /\ NoRun

\* create_run / create_call(destination, binary, target) writes the file.
CreateScript ==
    /\ output = << >>
    /\ output' = << [fn |-> "create",
                     file |-> create(<< "/", "t", "o", "i", "p" >>,
                                     input.command, input.target)] >>
    /\ UNCHANGED << runVars, input >>

\* run(script_path, ..): script::read_container(script_path)
ReadContainer ==
    /\ Len(output) = 1
    /\ output' = Append(output,
                        [fn |-> "read_container",
                         container_name |-> read_container(output[1].file)])
    /\ UNCHANGED << runVars, input >>

ScriptNext ==
    \/ CreateScript
    \/ ReadContainer

ScriptSpec == ScriptInit /\ [][ScriptNext]_vars

\* ------------------------------------------------------------ properties
\* Instructions dispatched so far whose name is the initiating alias.
AliasTasks == { i \in DOMAIN tasks : tasks[i].name = alias }

\* Tasks not pushed on container_handles: those stored as the origin.
Designated == DOMAIN tasks \ containerHandles

\* The loop over the instruction stream has been left.
LoopExited == runPc \in {"await_origin", "await_server", "remove_socket",
                         "drain"}
              \/ (runPc = "returned" /\ runResult \notin {"bind_err", "call_err"})

OriginRecorded == cancellationHandle # 0

OriginState == tasks[cancellationHandle].state

\* C1: among the instructions dispatched so far, the one designated origin
\* is exactly the first whose name equals the initiating alias (none while
\* no such instruction was dispatched), and every other instruction, also a
\* later one with the same name, is on the background set.
C1_OriginUnique ==
    /\ Designated = IF AliasTasks = {}
                      THEN {}
                      ELSE { CHOOSE i \in AliasTasks :
                               \A j \in AliasTasks : i <= j }
    /\ Designated = IF OriginRecorded THEN {cancellationHandle} ELSE {}

\* C1 witness: two instructions named as the alias were dispatched; the
\* first is the origin, the second is background.
C1_Witness ==
    /\ Cardinality(AliasTasks) >= 2
    /\ cancellationHandle = 1
    /\ \E i \in containerHandles : tasks[i].name = alias

\* C2 (as claimed): once the wrapper that awaits the origin task is through,
\* the cancellation signal has been triggered, whatever the origin task's
\* outcome (success, returned error, panic).
C2_CancelOnAnyOutcome ==
    wrapper \in {"ok", "err", "join_err"} => cancelled

\* C3: cancel() is called at most once, and only when an origin task was
\* recorded and has finished; a finished background task leaves the token
\* untouched.
C3_CancelOnlyByOrigin ==
    /\ cancelCount <= 1
    /\ cancelled <=> cancelCount = 1
    /\ cancelled => OriginRecorded /\ TaskDone(tasks[cancellationHandle])

\* C3 witness: a background task with the alias' name finished while the
\* origin was still running, and later the origin's completion cancelled.
C3_Witness ==
    /\ cancelled
    /\ cancelCount = 1
    /\ \E i \in containerHandles : tasks[i].name = alias /\ TaskDone(tasks[i])

\* C4 (as claimed): the instruction stream ends only after cancellation was
\* requested.
C4_StreamEndsOnlyAfterCancel ==
    (StreamEnded \/ LoopExited) => cancelled

\* C4 (amended): the dispatch loop is left only after the listener task has
\* ended and the channel is empty, never while the listener is still
\* accepting; the listener ends without an error only after cancellation was
\* requested, so a stream that ends without cancellation ended by a listener
\* failure.
C4_StreamEndsOnlyAfterListenerEnds ==
    /\ LoopExited => (serverState \in ServerFinished /\ queue = << >>)
    /\ serverState = "stopped" => cancelled
    /\ (LoopExited /\ ~cancelled) => serverState \in ServerFailed

\* C4 witness: the origin completed, the token was cancelled, the listener
\* stopped and the dispatch loop was left after two dispatched instructions.
C4_Witness ==
    /\ runPc = "await_origin"
    /\ cancelled
    /\ serverState = "stopped"
    /\ Len(tasks) >= 2

\* C5 (as claimed): with an initiating alias that has no container, once the
\* origin instruction is dispatched the run cannot get stuck: the only state
\* without a further step is run() having returned the origin's error.
C5_MissingAliasReturns ==
    (alias \notin Containers /\ OriginRecorded /\ ~ENABLED Next)
        => (runPc = "returned" /\ runResult = "origin_err")

\* C6 (as claimed): when run() has returned after binding the listener,
\* every handle on the background set has been awaited and the socket file
\* is gone.
C6_DrainComplete ==
    (runPc = "returned" /\ bound)
        => (containerHandles \subseteq awaited /\ ~socketFile)

\* C7 (as claimed): once run() has reached the drain of the background set,
\* a failed background task neither stops the drain nor fails the run: run()
\* returns Ok with every background handle awaited.
C7_BackgroundFailureSwallowed ==
    (runPc = "returned" /\ removeAttempted /\ ~socketFile)
        => (runResult = "ok" /\ containerHandles \subseteq awaited)

\* C8 (as claimed): on every path by which run() ends after the listener was
\* bound, removal of the socket file was attempted.
C8_SocketCleanupAttempted ==
    (runPc = "returned" /\ bound) => removeAttempted

\* C9: run() returns Ok only if an origin task was recorded and completed
\* successfully, and when the recorded origin task failed run() returns the
\* origin's error.
C9_OriginErrorPropagated ==
    runPc = "returned" =>
        /\ runResult = "ok" => (OriginRecorded /\ OriginState = "ok")
        /\ (OriginRecorded /\ OriginState # "ok") => runResult = "origin_err"

\* C9 witness: the origin workload failed in the runtime and run() returned
\* that error.
C9_Witness ==
    /\ runPc = "returned"
    /\ OriginRecorded
    /\ OriginState = "run_err"
    /\ runResult = "origin_err"

\* C10 (as claimed): a decode failure on one connection never ends the
\* listener.
C10_DecodeFailureKeepsListening ==
    serverState \notin {"decode_err", "size_panic"}

\* The connection or Call with identity `id` is at these places.
Places(id) ==
    Cardinality({ k \in DOMAIN backlog : backlog[k].id = id })
    + (IF current.id = id THEN 1 ELSE 0)
    + Cardinality({ k \in DOMAIN queue : queue[k].id = id })
    + Cardinality({ k \in DOMAIN tasks : tasks[k].id = id })

\* Handle takes the connection in `current` to an end in this step.
HandleStep == serverState = "handling" /\ serverState' # "handling"

\* C11 (as claimed): a frame whose declared length exceeds the 1024-byte
\* buffer is rejected and no Call is published for it; a frame whose declared
\* length fits the buffer is not rejected by the length guard.
C11_LengthGuard ==
    [][ HandleStep =>
          /\ current.size > BufferSize =>
                (serverState' \in ServerFailed /\ published' = published)
          /\ current.size <= BufferSize => serverState' # "size_panic" ]_vars

\* C12 (as claimed): every Call on the channel and every Call taken by the
\* dispatch loop carries exactly three descriptors.
C12_ThreeDescriptors ==
    /\ \A k \in DOMAIN queue : queue[k].nfds = StdioCount
    /\ \A k \in DOMAIN tasks : tasks[k].nfds = StdioCount

\* C13 (as claimed): when a spawned task has finished, in whatever way, its
\* descriptors are owned by the workload's stdio or closed.
C13_NoDescriptorLeak ==
    \A k \in DOMAIN tasks :
        TaskDone(tasks[k]) => tasks[k].fds \in {"stdio", "closed"}

\* C14: the descriptors of one connection are at exactly one place at a time
\* (the connection, then one Call on the channel, then one task), and once a
\* task has wrapped them they are never raw again nor reopened.
C14_DescriptorsOwnedOnce ==
    /\ [](\A id \in 1..calls : Places(id) <= 1)
    /\ [][ \A k \in DOMAIN tasks :
             /\ tasks[k].fds # "raw" => tasks'[k].fds # "raw"
             /\ tasks[k].fds = "closed" => tasks'[k].fds = "closed" ]_vars

\* C14 witness: one task runs with the descriptors as its stdio while a
\* second Call has been dispatched to another task.
C14_Witness ==
    /\ Len(tasks) >= 2
    /\ tasks[1].fds = "stdio"
    /\ tasks[2].fds = "stdio"

\* The helper call of the scenario: the second connection, a well-formed
\* frame naming `helper`, still unaccepted or dispatched.
IsHelperCall(c) == c.id = 2 /\ c.name = "helper" /\ c.nfds = StdioCount

HelperCalled ==
    /\ calls = 2
    /\ \/ \E k \in DOMAIN backlog :
            /\ IsHelperCall(backlog[k])
            /\ backlog[k].valid
            /\ backlog[k].size < BufferSize
       \/ \E k \in DOMAIN tasks : IsHelperCall(tasks[k])

\* C15 (as claimed): when the origin `shell` placed a call for `helper` and
\* run() returned Ok, two instructions were dispatched (`shell` the origin,
\* `helper` background), both workloads completed and the socket is removed.
C15_HelperDispatched ==
    (runPc = "returned" /\ runResult = "ok" /\ alias = "shell" /\ HelperCalled)
        => /\ Len(tasks) = 2
           /\ cancellationHandle = 1
           /\ tasks[2].name = "helper"
           /\ 2 \in containerHandles
           /\ tasks[1].state = "ok"
           /\ tasks[2].state = "ok"
           /\ ~socketFile

\* C16: every Call sent on the channel is on the channel or was taken by
\* exactly one task, never both and never twice, nothing else is dispatched,
\* and the dispatch loop is left only with an empty channel.
C16_ConsumedExactlyOnce ==
    /\ \A k \in DOMAIN published :
         Cardinality({ q \in DOMAIN queue : queue[q].id = published[k] })
         + Cardinality({ t \in DOMAIN tasks : tasks[t].id = published[k] }) = 1
    /\ Len(queue) + Len(tasks) = Len(published)
    /\ runPc \notin {"setup", "await_call", "dispatch"} => queue = << >>

\* C16 witness: the listener stopped, the loop was left, and each of two
\* published Calls has its task.
C16_Witness ==
    /\ LoopExited
    /\ Len(published) >= 2
    /\ Len(tasks) = Len(published)

\* C17: a task whose container name is unknown panics alone: the step
\* changes nothing but that task, and while instructions are on the channel
\* the dispatch loop is still taking them.
C17_UnknownNameFailsOnlyItsTask ==
    /\ []((\E k \in DOMAIN tasks : tasks[k].name \notin Containers
                                   /\ tasks[k].state = "panic")
             => (queue # << >> => runPc = "dispatch"))
    /\ [][ \A k \in DOMAIN tasks :
             (/\ tasks[k].name \notin Containers
              /\ tasks[k].state = "spawned"
              /\ tasks'[k].state = "panic")
             => /\ runPc' = runPc
                /\ queue' = queue
                /\ serverState' = serverState
                /\ \A j \in DOMAIN tasks \ {k} : tasks'[j] = tasks[j] ]_vars

\* C17 witness: a task panicked on an unknown name and an instruction
\* queued after it has been dispatched and is running.
C17_Witness ==
    \E k \in DOMAIN tasks :
        /\ tasks[k].name \notin Containers
        /\ tasks[k].state = "panic"
        /\ \E j \in DOMAIN tasks : j > k /\ tasks[j].state = "running"

\* C18 (as claimed): after the runtime step of a task, successful or failed,
\* the task's bundle directory has been removed.
C18_BundleReleased ==
    \A k \in DOMAIN tasks :
        tasks[k].state \in {"ok", "run_err"} => tasks[k].bundle = "removed"

\* C19 (as claimed): setup binds the listener also when a socket file of an
\* earlier run exists at the socket path.
C19_StaleSocketRemoved ==
    runPc # "setup" => bound

\* C20: no instruction is dispatched before the bootstrap call has succeeded,
\* and after a failed bootstrap call run() dispatches nothing and returns the
\* call's error.
C20_BootstrapAwaited ==
    /\ tasks # << >> => callHandle = "ok"
    /\ runPc \in {"dispatch", "await_origin", "await_server", "remove_socket",
                  "drain"} => callHandle = "ok"
    /\ callHandle = "err" =>
         /\ tasks = << >>
         /\ runPc \in {"await_call", "returned"}
         /\ runPc = "returned" => runResult = "call_err"

\* C20 witness: the bootstrap call failed and run() returned its error with
\* nothing dispatched.
C20_Witness ==
    /\ callHandle = "err"
    /\ runPc = "returned"
    /\ runResult = "call_err"
    /\ tasks = << >>

\* C21 (as claimed): whatever number of workloads is running, the listener
\* can accept a waiting connection and publish its Call, the dispatch loop
\* can take a queued instruction, and a spawned task can start its workload.
C21_DispatchNotBlocked ==
    Running =>
        /\ (serverState = "listening" /\ backlog # << >>)
              => ENABLED (WorkerFree /\ ListenAccept)
        /\ serverState = "handling" => ENABLED (WorkerFree /\ Handle)
        /\ (runPc = "dispatch" /\ queue # << >>) => ENABLED RunDispatch
        /\ \A i \in DOMAIN tasks :
              tasks[i].state = "spawned" => ENABLED (WorkerFree /\ TaskPrepare(i))

\* C22: the channel never holds more than 100 Calls, and while it holds 100
\* the listener stays in handle() with the decoded connection (the Call is
\* not dropped and not published) and takes no connection from the socket.
C22_QueueBackpressure ==
    /\ [](Len(queue) <= ChannelCapacity)
    /\ [][ (/\ serverState = "handling"
            /\ FrameKind(current.size, current.valid) = "ok"
            /\ Len(queue) = ChannelCapacity)
           => /\ serverState' = "handling"
              /\ current' = current
              /\ published' = published
              /\ Len(backlog') >= Len(backlog)
              /\ Len(queue') <= Len(queue) ]_vars

\* C22 witness: 100 Calls on the channel, the listener holds a decoded
\* connection in handle(), and a further connection waits on the socket.
C22_Witness ==
    /\ Len(queue) = ChannelCapacity
    /\ serverState = "handling"
    /\ FrameKind(current.size, current.valid) = "ok"
    /\ backlog # << >>

\* The ids of a sequence of connections, Calls or tasks.
Ids(s) == [k \in DOMAIN s |-> s[k].id]

\* C23: the Calls sent on the channel are taken by the dispatch loop in the
\* order they were sent: the tasks in spawn order, followed by the Calls
\* still on the channel, are the published Calls in publication order.
C23_Fifo ==
    Ids(tasks) \o Ids(queue) = published

\* C23 witness: two Calls were on the channel together and were spawned in
\* the order of their publication.
C23_Witness ==
    /\ Len(tasks) = 3
    /\ published = << 1, 2, 3 >>
    /\ tasks[2].state = "spawned"
    /\ tasks[3].state = "spawned"

\* C24: when run() has returned, with Ok or with an error, a recorded origin
\* task has completed.
C24_ReturnsAfterOrigin ==
    (runPc = "returned" /\ OriginRecorded) => TaskDone(tasks[cancellationHandle])

\* C24 witness: the listener failed while the origin workload was going on,
\* and run() returned the listener's error after the origin had completed.
C24_Witness ==
    /\ runPc = "returned"
    /\ runResult = "server_err"
    /\ OriginRecorded
    /\ OriginState = "ok"
    /\ serverState = "decode_err"

\* C26: call() returns Ok in the step that puts the frame on the socket,
\* before the listener has accepted, decoded or published anything of it,
\* and a call that returned an error has sent nothing.
C26_FireAndForget ==
    /\ [](callHandle = "err" => (calls = 0 /\ backlog = << >>))
    /\ [][ (callHandle = "running" /\ callHandle' = "ok")
           => /\ Len(backlog') = Len(backlog) + 1
              /\ backlog'[Len(backlog')].id = calls'
              /\ current' = current
              /\ published' = published
              /\ tasks' = tasks ]_vars

\* C26 witness: the bootstrap call returned Ok, its connection was never
\* decoded into a Call, and run() has ended.
C26_Witness ==
    /\ callHandle = "ok"
    /\ runPc = "returned"
    /\ published = << >>
    /\ tasks = << >>

\* C30 (as claimed): after a successful bootstrap call, when every spawned
\* task has finished and no step is left to take, run() has returned.
C30_RunTerminates ==
    (/\ callHandle = "ok"
     /\ \A k \in DOMAIN tasks : TaskDone(tasks[k])
     /\ ~ENABLED Next)
        => runPc = "returned"

\* The tokens the claim expects of the words a, b, c, .. joined by `ops`:
\* one Process of one bare word for each word, And or Or in between.
WordToken(k) ==
    [type |-> "Process",
     group |-> << << [type |-> "Bare", text |-> << LowerCase[k] >>] >> >>]

OperatorToken(op) == IF op = "&&" THEN [type |-> "And"] ELSE [type |-> "Or"]

RECURSIVE ExpectedTokens(_)
ExpectedTokens(ops) ==
    IF ops = << >> THEN << WordToken(1) >>
    ELSE ExpectedTokens(Take(ops, Len(ops) - 1))
           \o << OperatorToken(ops[Len(ops)]), WordToken(Len(ops) + 1) >>

\* C28 (as claimed): `shell` turns words joined by `&&` and `||` into the
\* tokens in input order, And for each `&&`, Or for each `||`, and one
\* Process for each word, with no remaining input.
C28_ShellTokens ==
    \A k \in DOMAIN output :
        output[k].fn = "shell" =>
            \A ops \in OperatorLists :
                input = Joined(ops) =>
                    output[k].result = ParseOk(<< >>, ExpectedTokens(ops))

\* C29: `argument` succeeds exactly on `$` followed by a decimal digit; it
\* yields the ArgumentIndex of that one digit and leaves everything after
\* the digit, further digits included, as remaining input.
C29_ArgumentOneDigit ==
    \A k \in DOMAIN output :
        output[k].fn = "argument" =>
            IF Len(input) >= 2 /\ input[1] = "$"
                 /\ input[2] \in Range(DigitChars)
              THEN /\ output[k].result.ok
                   /\ output[k].result.value.type = "ArgumentIndex"
                   /\ DigitChars[output[k].result.value.index + 1] = input[2]
                   /\ output[k].result.rest = SubSeq(input, 3, Len(input))
              ELSE ~output[k].result.ok

\* C29 witness: `$10` was parsed to ArgumentIndex(1) with `0` remaining.
C29_Witness ==
    /\ input = << "$", "1", "0" >>
    /\ output = << [fn |-> "argument",
                    result |-> ParseOk(<< "0" >>, [type |-> "ArgumentIndex",
                                                   index |-> 1])] >>

\* The entries of an environment that define TOIP_SOCK: strings
\* `TOIP_SOCK=..` of build_env, EnvVars named TOIP_SOCK of create_env_vars.
SocketEntries(result) ==
    IF result.fn = "build_env"
      THEN { i \in DOMAIN result.env :
               SplitKey(result.env[i]) = << "TOIP_SOCK" >> }
      ELSE { i \in DOMAIN result.env : result.env[i].name = "TOIP_SOCK" }

\* C27 (as claimed): every environment built for a workload defines
\* TOIP_SOCK exactly once, with the socket path inside the workload as its
\* value, also when the container's own env defines TOIP_SOCK.
C27_SocketVariableOnce ==
    \A k \in DOMAIN output :
        output[k].ok =>
            /\ Cardinality(SocketEntries(output[k])) = 1
            /\ \A i \in SocketEntries(output[k]) :
                  IF output[k].fn = "build_env"
                    THEN SplitValue(output[k].env[i]) = << ContainerSocket >>
                    ELSE output[k].env[i].value = << ContainerSocket >>

\* C25 (as claimed): what Inner::handle decodes from the frame that call()
\* encoded is a Call with a CallInfo equal to the caller's and the caller's
\* three descriptors in the same order.
C25_FramingRoundTrip ==
    \A k \in DOMAIN output :
        output[k].fn = "handle" =>
            output[k].call = [outcome |-> "ok",
                              info |-> input.info,
                              file_descriptors |-> input.files]

\* C31 (as claimed): one item encoded by StdioEncoder and decoded by
\* StdioDecoder gives exactly that item, kind and payload, with no byte left
\* in the buffer, and the length in the header is the payload's length.
C31_StdioRoundTrip ==
    \A k \in DOMAIN output :
        (/\ Len(input.items) = 1
         /\ output[k].rest = << >>
         /\ output[k].starved)
        => /\ output[k].emitted = input.items
           /\ output[k].decoder.src = << >>
           /\ from_be_bytes(SubSeq(output[k].stream, 5, 8))
                = Len(input.items[1].data)

\* C32: on a stream of well-formed frames (8-byte header with the marker
\* and the 4-byte big-endian payload length, then the payload) read in
\* arbitrary pieces, the decoder emits a prefix of the items sent, emits
\* nothing that is not buffered in full, has taken from the stream exactly
\* the frames emitted (and the header of the frame it is waiting for), and
\* once the whole stream is read and decode returns None it has emitted
\* what decoding the whole stream at once emits.
C32_ChunkInsensitive ==
    \A k \in DOMAIN output :
        output[k].stream = Written(input.items, 4) =>
            /\ Len(output[k].emitted) <= Len(input.items)
            /\ output[k].emitted
                 = Take(input.items, Len(output[k].emitted))
            /\ Len(Written(output[k].emitted, 4))
                 <= Len(output[k].stream) - Len(output[k].rest)
            /\ output[k].decoder.src \o output[k].rest
                 = Drop(output[k].stream,
                        Len(Written(output[k].emitted, 4))
                          + (IF output[k].decoder.state = "AwaitingContent"
                               THEN 8 ELSE 0))
            /\ (output[k].rest = << >> /\ output[k].starved)
                 => output[k].emitted
                      = Drained(NewDecoder(output[k].stream), << >>)

\* C32 witness: the first of two frames was emitted and the decoder has
\* taken the header of the second, whose content is not read in full yet.
C32_Witness ==
    /\ Len(output) = 1
    /\ input.width = 4
    /\ Len(input.items) = 2
    /\ Len(output[1].emitted) = 1
    /\ output[1].decoder.state = "AwaitingContent"
    /\ output[1].rest # << >>

\* C33 (as claimed): when create_ports returns, the host ports it generated
\* are pairwise distinct, each of them can be bound on 127.0.0.1, and the
\* map has one entry for each Generated port of the configuration.
C33_GeneratedPortsDistinct ==
    \A k \in DOMAIN output :
        output[k].next > Len(input.ports) =>
            /\ \A i, j \in DOMAIN output[k].generated_ports :
                  output[k].generated_ports[i] = output[k].generated_ports[j]
                    => i = j
            /\ \A i \in DOMAIN output[k].generated_ports :
                  output[k].generated_ports[i] \notin input.unavailable
            /\ (\A i \in DOMAIN input.ports :
                   input.ports[i].host.kind = "Generated")
                 => Cardinality(DOMAIN output[k].hashmap) = Len(input.ports)

\* C34 (as claimed): spawn never returns while its child is running, and
\* once the child has terminated and the SIGCHLD was handled (no SIGCHLD is
\* pending and reap_zombies is not under way) spawn has returned, also when
\* the child was the init's only child.
C34_SpawnReturnsAfterChild ==
    \A k \in DOMAIN output :
        /\ output[k].pc = "returned" => output[k].procs[ChildPid] = "reaped"
        /\ (/\ output[k].procs[ChildPid] # "running"
            /\ "SIGCHLD" \notin output[k].pending
            /\ output[k].pc # "reaping")
           => output[k].pc = "returned"

\* C35: find_config_file ends for every starting directory (every turn of
\* its loop ends the search or goes one directory up, and the search is
\* over when no turn is left), with Some(file) for the configuration file of
\* the deepest directory between the root and the starting directory, both
\* included, that holds one, and with None when none of them holds one.
C35_NearestConfigFile ==
    /\ [](\A k \in DOMAIN output :
            /\ output[k].found = "searching" => ENABLED FindLoop
            /\ output[k].found = "Some" =>
                 \E d \in 0..Len(input.start) :
                    /\ input.entry[d] = "file"
                    /\ \A j \in (d + 1)..Len(input.start) :
                          input.entry[j] # "file"
                    /\ output[k].path
                         = Take(input.start, d) \o << "toip.yaml" >>
            /\ output[k].found = "None" =>
                 \A d \in 0..Len(input.start) : input.entry[d] # "file")
    /\ [][FindLoop =>
            \/ output'[1].found # "searching"
            \/ Len(output'[1].path) < Len(output[1].path)]_vars

\* C35 witness: started two directories below the one with the file, whose
\* own parent holds a file too; the search passed a directory named like the
\* file and returned the nearer file.
C35_Witness ==
    /\ Len(output) = 1
    /\ Len(input.start) = 3
    /\ input.entry = (0 :> "file" @@ 1 :> "file" @@ 2 :> "dir" @@ 3 :> "none")
    /\ output[1] = [path |-> << input.start[1], "toip.yaml" >>,
                    found |-> "Some"]

\* C36: for a container name without a line break (no line feed and no
\* carriage return), read_container of the file that create_run or
\* create_call wrote for the name returns that name.
C36_ScriptRoundTrip ==
    \A k \in DOMAIN output :
        (/\ output[k].fn = "read_container"
         /\ \A i \in DOMAIN input.target :
               input.target[i] \notin {"\n", "\r"})
        => output[k].container_name = [ok |-> TRUE, value |-> input.target]

\* C36 witness: the script of `run` for the name `ab` was written and read
\* back.
C36_Witness ==
    /\ input = [target |-> << "a", "b" >>, command |-> << "r", "u", "n" >>]
    /\ Len(output) = 2
    /\ output[2].container_name = [ok |-> TRUE, value |-> << "a", "b" >>]

====
